---- MODULE Spec2Model ----
(***************************************************************************)
(* The torchbox site: page models (torchbox/models.py) and template tags   *)
(* (torchbox/templatetags/torchbox_tags.py).                               *)
(*                                                                         *)
(* The page store, the tag relation, one LinkFields row and one time value *)
(* are the state. The handlers (listing properties, serve, blog_index, the *)
(* menu tags, LinkFields.link, time_display) are actions that leave their  *)
(* result in `response`. The page-tree admin (create, publish, unpublish,  *)
(* tag, show in menus) is the environment.                                 *)
(***************************************************************************)
EXTENDS Integers, Sequences, FiniteSets, TLC

VARIABLES
    pages,          \* the page table: pages[pk] is the row with primary key pk
    tagged_items,   \* BlogPageTag rows: [content_object |-> pk, tag |-> name]
    link_fields,    \* one LinkFields row
    time,           \* the value handed to the time_display filter
    response        \* what the last handler returned

vars == <<pages, tagged_items, link_fields, time, response>>

\* Requests are handled one at a time, each to completion (no concurrency in
\* the handlers): a handler runs when no response is pending, and the editors'
\* changes to the store fall between requests.
NoResponse == [op |-> "none"]

\* the response has gone to the client
Sent ==
    /\ response # NoResponse
    /\ response' = NoResponse
    /\ UNCHANGED <<pages, tagged_items, link_fields, time>>

(***************************************************************************)
(* str(int) for a non-negative int: its decimal digits, no padding.        *)
(***************************************************************************)
Digit(d) ==
    CASE d = 0 -> "0" [] d = 1 -> "1" [] d = 2 -> "2" [] d = 3 -> "3"
      [] d = 4 -> "4" [] d = 5 -> "5" [] d = 6 -> "6" [] d = 7 -> "7"
      [] d = 8 -> "8" [] d = 9 -> "9"

RECURSIVE str(_)
str(n) == IF n < 10 THEN Digit(n) ELSE str(n \div 10) \o Digit(n % 10)

(***************************************************************************)
(* time_display (torchbox_tags.py 137-168)                                 *)
(***************************************************************************)
Hours == 0..23
Minutes == 0..59
Times == [hour : Hours, minute : Minutes]

\* "hour -= 12" left out of the pm branch
time_display_no_wrap(t) ==
    LET pm == t.hour >= 12
        hour == IF t.hour = 0 THEN 12 ELSE t.hour
        minute_string == IF t.minute # 0 THEN "." \o str(t.minute) ELSE ""
        pm_string == IF pm THEN "pm" ELSE "am"
    IN  str(hour) \o minute_string \o pm_string

time_display(t) ==
    LET pm == t.hour >= 12
        hour12 == IF pm THEN t.hour - 12 ELSE t.hour
        hour == IF hour12 = 0 THEN 12 ELSE hour12
        hour_string == str(hour)
        minute_string == IF t.minute # 0 THEN "." \o str(t.minute) ELSE ""
        pm_string == IF pm THEN "pm" ELSE "am"
    IN  hour_string \o minute_string \o pm_string

\* a template renders {{ value|time_display }}
TimeDisplay ==
    /\ response = NoResponse
    /\ response' = [op |-> "time_display", time |-> time,
                    result |-> time_display(time)]
    /\ UNCHANGED <<pages, tagged_items, link_fields, time>>

\* the next value rendered
SetTime ==
    /\ response = NoResponse
    /\ \E t \in Times : time' = t
    /\ UNCHANGED response
    /\ UNCHANGED <<pages, tagged_items, link_fields>>

(***************************************************************************)
(* LinkFields.link (models.py 35-57)                                       *)
(***************************************************************************)
\* Rows a foreign key can point at. A page outside every site has url None.
None == "None"
LinkPages == {[pk |-> 2, url |-> "/about/"], [pk |-> 3, url |-> "/blog/"],
              [pk |-> 4, url |-> None]}
LinkDocuments == {[pk |-> 1, url |-> "/documents/1/a.pdf"],
                  [pk |-> 2, url |-> "/documents/2/b.pdf"],
                  [pk |-> 3, url |-> "/documents/3/c.pdf"]}
ExternalLinks == {"", "http://a.example/", "http://b.example/",
                  "http://c.example/"}

\* A nullable foreign key: the empty set is NULL, else the one row.
Nullable(S) == {{}} \cup {{r} : r \in S}
Row(fk) == CHOOSE r \in fk : TRUE

LinkFieldsRows ==
    [link_external : ExternalLinks,
     link_page : Nullable(LinkPages),
     link_document : Nullable(LinkDocuments)]

\* document tested before page
link_document_first(self) ==
    IF self.link_document # {} THEN Row(self.link_document).url
    ELSE IF self.link_page # {} THEN Row(self.link_page).url
    ELSE self.link_external

link(self) ==
    IF self.link_page # {} THEN Row(self.link_page).url
    ELSE IF self.link_document # {} THEN Row(self.link_document).url
    ELSE self.link_external

\* a template reads item.link
Link ==
    /\ response = NoResponse
    /\ response' = [op |-> "link", self |-> link_fields,
                    result |-> link(link_fields)]
    /\ UNCHANGED <<pages, tagged_items, link_fields, time>>

\* the editor saves the row with other link targets
SaveLinkFields ==
    /\ response = NoResponse
    /\ \E r \in LinkFieldsRows : link_fields' = r
    /\ UNCHANGED response
    /\ UNCHANGED <<pages, tagged_items, time>>

(***************************************************************************)
(* The page tree (wagtailcore.Page, a treebeard materialised-path node).   *)
(* A path is the sequence of its fixed-width steps, so that the string     *)
(* test path LIKE 'prefix%' is the prefix test on step sequences.          *)
(***************************************************************************)
IndexTypes == {"BlogIndexPage", "JobIndexPage", "WorkIndexPage", "PersonIndexPage"}
ItemTypes == {"BlogPage", "JobPage", "WorkPage", "PersonPage"}
PlainTypes == {"StandardPage"}

\* BlogPage.date; the other page types have no such column
NoDate == 0
MaxDate == 3
Dates == 1..MaxDate

\* the root page the CMS creates: pk 1, path "0001", depth 1
RootPage == [type |-> "Page", path |-> <<1>>, live |-> TRUE,
             show_in_menus |-> FALSE, date |-> NoDate]

PKs == DOMAIN pages
depth(pk) == Len(pages[pk].path)

\* path__startswith
startswith(path, prefix) ==
    /\ Len(prefix) <= Len(path)
    /\ SubSeq(path, 1, Len(prefix)) = prefix

Max(S) == CHOOSE x \in S : \A y \in S : y <= x
Min(S) == CHOOSE x \in S : \A y \in S : x <= y

\* Page.add_child: the new node goes after the parent's last child
ChildSteps(parent) ==
    {pages[c].path[depth(c)] : c \in {c \in PKs :
        /\ depth(c) = depth(parent) + 1
        /\ startswith(pages[c].path, pages[parent].path)}}

NextStep(parent) ==
    IF ChildSteps(parent) = {} THEN 1 ELSE Max(ChildSteps(parent)) + 1

\* an editor adds a page of the given type under parent, published or as a draft
CreatePage(parent, type, live, date) ==
    /\ response = NoResponse
    /\ pages' = Append(pages,
            [type |-> type,
             path |-> Append(pages[parent].path, NextStep(parent)),
             live |-> live,
             show_in_menus |-> FALSE,
             date |-> IF type = "BlogPage" THEN date ELSE NoDate])
    /\ UNCHANGED response
    /\ UNCHANGED <<tagged_items, link_fields, time>>

\* an editor publishes a draft / unpublishes a page
SetLive(pk, live) ==
    /\ response = NoResponse
    /\ pages[pk].live # live
    /\ pages' = [pages EXCEPT ![pk].live = live]
    /\ UNCHANGED response
    /\ UNCHANGED <<tagged_items, link_fields, time>>

\* an editor ticks or unticks "show in menus" (COMMON_PANELS)
SetShowInMenus(pk, show) ==
    /\ response = NoResponse
    /\ pages[pk].show_in_menus # show
    /\ pages' = [pages EXCEPT ![pk].show_in_menus = show]
    /\ UNCHANGED response
    /\ UNCHANGED <<tagged_items, link_fields, time>>

\* an editor tags a blog post (BlogPage.tags through BlogPageTag)
TagNames == {"django", "wagtail"}
AddTag(pk, name) ==
    /\ response = NoResponse
    /\ pages[pk].type = "BlogPage"
    /\ [content_object |-> pk, tag |-> name] \notin tagged_items
    /\ tagged_items' = tagged_items \cup {[content_object |-> pk, tag |-> name]}
    /\ UNCHANGED response
    /\ UNCHANGED <<pages, link_fields, time>>

(***************************************************************************)
(* Querysets. Where SQL leaves the order of rows open (no ORDER BY, or     *)
(* equal sort keys) the rows come back in the order the table is scanned,  *)
(* and either direction can happen.                                        *)
(***************************************************************************)
ScanOrders == {"forward", "backward"}

\* the primary keys of S, lowest first / highest first
Ascending(S) == SelectSeq([pk \in 1..Len(pages) |-> pk], LAMBDA pk : pk \in S)
Descending(S) ==
    SelectSeq([i \in 1..Len(pages) |-> Len(pages) + 1 - i], LAMBDA pk : pk \in S)

Rows(S, scan) == IF scan = "forward" THEN Ascending(S) ELSE Descending(S)

Remove(s, i) == SubSeq(s, 1, i - 1) \o SubSeq(s, i + 1, Len(s))

\* order_by('date'): oldest first
RECURSIVE order_by_date_asc(_)
order_by_date_asc(rows) ==
    IF rows = <<>> THEN <<>>
    ELSE LET first == Min({pages[rows[i]].date : i \in 1..Len(rows)})
             i == Min({j \in 1..Len(rows) : pages[rows[j]].date = first})
         IN  <<rows[i]>> \o order_by_date_asc(Remove(rows, i))

\* order_by('-date'): most recent first, equal dates in the order they came
RECURSIVE order_by_date_desc(_)
order_by_date_desc(rows) ==
    IF rows = <<>> THEN <<>>
    ELSE LET latest == Max({pages[rows[i]].date : i \in 1..Len(rows)})
             i == Min({j \in 1..Len(rows) : pages[rows[j]].date = latest})
         IN  <<rows[i]>> \o order_by_date_desc(Remove(rows, i))

\* <Type>.objects.filter(path__startswith=self.path), the live test dropped
descendants_any(type, self) ==
    {pk \in PKs :
        /\ pages[pk].type = type
        /\ startswith(pages[pk].path, pages[self].path)}

\* <Type>.objects.filter(live=True, path__startswith=self.path)
live_descendants(type, self) ==
    {pk \in PKs :
        /\ pages[pk].type = type
        /\ pages[pk].live
        /\ startswith(pages[pk].path, pages[self].path)}

\* BlogIndexPage.blogs
blogs(self, scan) ==
    order_by_date_desc(Rows(live_descendants("BlogPage", self), scan))

\* JobIndexPage.jobs, WorkIndexPage.work, PersonIndexPage.people
jobs(self, scan) == Rows(live_descendants("JobPage", self), scan)
work(self, scan) == Rows(live_descendants("WorkPage", self), scan)
people(self, scan) == Rows(live_descendants("PersonPage", self), scan)

\* a template reads self.blogs / self.jobs / self.work / self.people
Blogs(self) ==
    /\ response = NoResponse
    /\ pages[self].type = "BlogIndexPage"
    /\ \E scan \in ScanOrders :
        response' = [op |-> "blogs", self |-> self, result |-> blogs(self, scan)]
    /\ UNCHANGED <<pages, tagged_items, link_fields, time>>

Jobs(self) ==
    /\ response = NoResponse
    /\ pages[self].type = "JobIndexPage"
    /\ \E scan \in ScanOrders :
        response' = [op |-> "jobs", self |-> self, result |-> jobs(self, scan)]
    /\ UNCHANGED <<pages, tagged_items, link_fields, time>>

Work(self) ==
    /\ response = NoResponse
    /\ pages[self].type = "WorkIndexPage"
    /\ \E scan \in ScanOrders :
        response' = [op |-> "work", self |-> self, result |-> work(self, scan)]
    /\ UNCHANGED <<pages, tagged_items, link_fields, time>>

People(self) ==
    /\ response = NoResponse
    /\ pages[self].type = "PersonIndexPage"
    /\ \E scan \in ScanOrders :
        response' = [op |-> "people", self |-> self, result |-> people(self, scan)]
    /\ UNCHANGED <<pages, tagged_items, link_fields, time>>

(***************************************************************************)
(* request.GET: each key is absent (the empty set) or carries one string.  *)
(* The page parameter is kept as its characters, so that int() parses it.  *)
(***************************************************************************)
PyNone == [t |-> "NoneType"]
PyStr(chars) == [t |-> "str", v |-> chars]
PyInt(n) == [t |-> "int", v |-> n]

\* request.GET.get(key)
GET_get(GET, key) ==
    IF GET[key] = {} THEN PyNone ELSE PyStr(CHOOSE v \in GET[key] : TRUE)

DigitChars == {"0", "1", "2", "3", "4", "5", "6", "7", "8", "9"}
DigitValue(c) ==
    CASE c = "0" -> 0 [] c = "1" -> 1 [] c = "2" -> 2 [] c = "3" -> 3
      [] c = "4" -> 4 [] c = "5" -> 5 [] c = "6" -> 6 [] c = "7" -> 7
      [] c = "8" -> 8 [] c = "9" -> 9

RECURSIVE DigitsValue(_)
DigitsValue(chars) ==
    IF chars = <<>> THEN 0
    ELSE DigitsValue(SubSeq(chars, 1, Len(chars) - 1)) * 10
            + DigitValue(chars[Len(chars)])

\* int(x): TypeError for None, ValueError for a string that is no integer
int(x) ==
    IF x.t = "int" THEN [exc |-> "", v |-> x.v]
    ELSE IF x.t = "NoneType" THEN [exc |-> "TypeError", v |-> 0]
    ELSE LET signed == x.v # <<>> /\ x.v[1] \in {"-", "+"}
             digits == IF signed THEN Tail(x.v) ELSE x.v
         IN  IF digits = <<>> \/ \E i \in 1..Len(digits) : digits[i] \notin DigitChars
             THEN [exc |-> "ValueError", v |-> 0]
             ELSE [exc |-> "",
                   v |-> IF signed /\ x.v[1] = "-" THEN 0 - DigitsValue(digits)
                         ELSE DigitsValue(digits)]

(***************************************************************************)
(* django.core.paginator.Paginator(object_list, per_page), with its        *)
(* defaults orphans=0 and allow_empty_first_page=True.                     *)
(***************************************************************************)
\* Paginator.num_pages
num_pages(count, per_page) ==
    LET hits == IF count > 1 THEN count ELSE 1
    IN  (hits + per_page - 1) \div per_page

\* Paginator.validate_number
validate_number(number, count, per_page) ==
    LET n == int(number)
    IN  IF n.exc # "" THEN [exc |-> "PageNotAnInteger", number |-> 0]
        ELSE IF n.v < 1 THEN [exc |-> "EmptyPage", number |-> 0]
        ELSE IF n.v > num_pages(count, per_page) THEN [exc |-> "EmptyPage", number |-> 0]
        ELSE [exc |-> "", number |-> n.v]

\* bottom taken as number * per_page: the "- 1" left out
Paginator_page_from_number(object_list, per_page, number) ==
    LET count == Len(object_list)
        valid == validate_number(number, count, per_page)
        bottom == valid.number * per_page
        top == IF bottom + per_page >= count THEN count ELSE bottom + per_page
    IN  IF valid.exc # ""
        THEN [exc |-> valid.exc, number |-> 0, object_list |-> <<>>]
        ELSE [exc |-> "", number |-> valid.number,
              object_list |-> SubSeq(object_list, bottom + 1, top)]

\* Paginator.page: Page(object_list[bottom:top], number, self), or the exception
Paginator_page(object_list, per_page, number) ==
    LET count == Len(object_list)
        valid == validate_number(number, count, per_page)
        bottom == (valid.number - 1) * per_page
        top == IF bottom + per_page >= count THEN count ELSE bottom + per_page
    IN  IF valid.exc # ""
        THEN [exc |-> valid.exc, number |-> 0, object_list |-> <<>>]
        ELSE [exc |-> "", number |-> valid.number,
              object_list |-> SubSeq(object_list, bottom + 1, top)]

\* the except EmptyPage branch sends page 1 instead of the last page
paginate_first_on_empty(object_list, per_page, number) ==
    LET first == Paginator_page(object_list, per_page, number)
    IN  IF first.exc \in {"PageNotAnInteger", "EmptyPage"}
        THEN Paginator_page(object_list, per_page, PyInt(1))
        ELSE first

\* the try / except PageNotAnInteger / except EmptyPage of every serve
paginate(object_list, per_page, number) ==
    LET first == Paginator_page(object_list, per_page, number)
    IN  IF first.exc = "PageNotAnInteger"
        THEN Paginator_page(object_list, per_page, PyInt(1))
        ELSE IF first.exc = "EmptyPage"
        THEN Paginator_page(object_list, per_page,
                  PyInt(num_pages(Len(object_list), per_page)))
        ELSE first

\* blogs.filter(tags__name=tag): the join gives one row per matching tag row
RECURSIVE filter_tags_name(_, _)
filter_tags_name(rows, tag) ==
    IF rows = <<>> THEN <<>>
    ELSE LET n == Cardinality({ti \in tagged_items :
                        ti.content_object = Head(rows) /\ ti.tag = tag})
         IN  [i \in 1..n |-> Head(rows)] \o filter_tags_name(Tail(rows), tag)

BlogsPerPage == 10
JobsPerPage == 10
WorkPerPage == 10
PeoplePerPage == 10

\* what render() is given: the Page of results, or the exception that escaped
Served(op, self, GET, object_list, per_page) ==
    LET result == paginate(object_list, per_page, GET_get(GET, "page"))
    IN  [op |-> op, self |-> self, GET |-> GET,
         exc |-> result.exc, number |-> result.number,
         object_list |-> result.object_list,
         paginator |-> [object_list |-> object_list,
                        count |-> Len(object_list),
                        num_pages |-> num_pages(Len(object_list), per_page)]]

\* the "if tag:" test dropped: an absent or empty tag filters too
blog_listing_always_filtered(self, GET, scan) ==
    LET tag == GET_get(GET, "tag")
    IN  filter_tags_name(blogs(self, scan), IF tag.t = "str" THEN tag.v ELSE "")

\* BlogIndexPage.serve up to the pagination: self.blogs, filtered by tag
blog_listing(self, GET, scan) ==
    LET tag == GET_get(GET, "tag")
    IN  IF tag.t = "str" /\ tag.v # ""
        THEN filter_tags_name(blogs(self, scan), tag.v)
        ELSE blogs(self, scan)

\* BlogIndexPage.serve
BlogIndexPage_serve(self, GET) ==
    /\ response = NoResponse
    /\ pages[self].type = "BlogIndexPage"
    /\ \E scan \in ScanOrders :
        response' = Served("BlogIndexPage.serve", self, GET,
                           blog_listing(self, GET, scan), BlogsPerPage)
    /\ UNCHANGED <<pages, tagged_items, link_fields, time>>

\* JobIndexPage.serve
JobIndexPage_serve(self, GET) ==
    /\ response = NoResponse
    /\ pages[self].type = "JobIndexPage"
    /\ \E scan \in ScanOrders :
        response' = Served("JobIndexPage.serve", self, GET,
                           jobs(self, scan), JobsPerPage)
    /\ UNCHANGED <<pages, tagged_items, link_fields, time>>

\* WorkIndexPage.serve
WorkIndexPage_serve(self, GET) ==
    /\ response = NoResponse
    /\ pages[self].type = "WorkIndexPage"
    /\ \E scan \in ScanOrders :
        response' = Served("WorkIndexPage.serve", self, GET,
                           work(self, scan), WorkPerPage)
    /\ UNCHANGED <<pages, tagged_items, link_fields, time>>

\* PersonIndexPage.serve
PersonIndexPage_serve(self, GET) ==
    /\ response = NoResponse
    /\ pages[self].type = "PersonIndexPage"
    /\ \E scan \in ScanOrders :
        response' = Served("PersonIndexPage.serve", self, GET,
                           people(self, scan), PeoplePerPage)
    /\ UNCHANGED <<pages, tagged_items, link_fields, time>>

(***************************************************************************)
(* BlogPage.blog_index (models.py 303-312)                                 *)
(***************************************************************************)
\* the page whose path is the given one
PageAt(path) == CHOOSE pk \in PKs : pages[pk].path = path

\* Page.get_ancestors(): the pages above self, the root first
get_ancestors(self) ==
    [d \in 1..(depth(self) - 1) |-> PageAt(SubSeq(pages[self].path, 1, d))]

\* reversed(seq)
reversed(seq) == [i \in 1..Len(seq) |-> seq[Len(seq) + 1 - i]]

\* BlogIndexPage.objects.first(): the lowest primary key, or no page
first_blog_index ==
    LET indexes == {pk \in PKs : pages[pk].type = "BlogIndexPage"}
    IN  IF indexes = {} THEN {} ELSE {Min(indexes)}

\* the loop walks get_ancestors() without reversed(): the root end first
blog_index_root_first(self) ==
    LET ancestors == get_ancestors(self)
        hits == {i \in 1..Len(ancestors) :
                    pages[ancestors[i]].type = "BlogIndexPage"}
    IN  IF hits # {} THEN {ancestors[Min(hits)]} ELSE first_blog_index

\* BlogPage.blog_index: the set holding the page returned, empty for None
blog_index(self) ==
    LET ancestors == reversed(get_ancestors(self))
        hits == {i \in 1..Len(ancestors) :
                    pages[ancestors[i]].type = "BlogIndexPage"}
    IN  IF hits # {} THEN {ancestors[Min(hits)]} ELSE first_blog_index

\* a template reads self.blog_index on a blog post
BlogIndex(self) ==
    /\ response = NoResponse
    /\ pages[self].type = "BlogPage"
    /\ response' = [op |-> "blog_index", self |-> self,
                    result |-> blog_index(self)]
    /\ UNCHANGED <<pages, tagged_items, link_fields, time>>

(***************************************************************************)
(* The menu tags (torchbox_tags.py 19-82)                                  *)
(***************************************************************************)
\* the rows of S ordered by path; S holds pages of one parent
RECURSIVE order_by_path(_)
order_by_path(S) ==
    IF S = {} THEN <<>>
    ELSE LET first == CHOOSE pk \in S : \A other \in S :
                        pages[pk].path[depth(pk)] <= pages[other].path[depth(other)]
         IN  <<first>> \o order_by_path(S \ {first})

is_child_of(pk, parent) ==
    /\ depth(pk) = depth(parent) + 1
    /\ startswith(pages[pk].path, pages[parent].path)

\* Page.get_children()
get_children(self) == order_by_path({pk \in PKs : is_child_of(pk, self)})

\* Page.get_other_siblings(): get_siblings().exclude(id=self.id)
get_other_siblings(self) ==
    order_by_path({pk \in PKs :
        /\ pk # self
        /\ depth(pk) = depth(self)
        /\ SubSeq(pages[pk].path, 1, depth(pk) - 1)
            = SubSeq(pages[self].path, 1, depth(self) - 1)})

\* .filter(live=True, show_in_menus=True)
filter_live_in_menus(rows) ==
    SelectSeq(rows, LAMBDA pk : pages[pk].live /\ pages[pk].show_in_menus)

\* any child at all counts, whatever its flags
has_any_children(page) == get_children(page) # <<>>

has_menu_children(page) == filter_live_in_menus(get_children(page)) # <<>>

\* top_menu: the context it returns
top_menu(parent, calling_page) ==
    LET menuitems == filter_live_in_menus(get_children(parent))
    IN  [calling_page |-> calling_page,
         menuitems |-> [i \in 1..Len(menuitems) |->
                            [page |-> menuitems[i],
                             show_dropdown |-> has_menu_children(menuitems[i])]]]

\* the siblings are returned whether or not there are children
secondary_menu_siblings(calling_page) ==
    IF calling_page = {} THEN [pages |-> <<>>]
    ELSE LET self == CHOOSE pk \in calling_page : TRUE
         IN  [pages |-> filter_live_in_menus(get_other_siblings(self))]

\* secondary_menu: the context it returns; calling_page is {} for None
secondary_menu(calling_page) ==
    IF calling_page = {} THEN [pages |-> <<>>]
    ELSE LET self == CHOOSE pk \in calling_page : TRUE
             children == filter_live_in_menus(get_children(self))
         IN  IF Len(children) = 0
             THEN [pages |-> filter_live_in_menus(get_other_siblings(self))]
             ELSE [pages |-> children]

\* {% top_menu parent=site_root calling_page=self %}
TopMenu(parent, calling_page) ==
    /\ response = NoResponse
    /\ response' = [op |-> "top_menu", parent |-> parent,
                    context |-> top_menu(parent, calling_page)]
    /\ UNCHANGED <<pages, tagged_items, link_fields, time>>

\* {% secondary_menu calling_page=self %}
SecondaryMenu(calling_page) ==
    /\ response = NoResponse
    /\ response' = [op |-> "secondary_menu", calling_page |-> calling_page,
                    context |-> secondary_menu(calling_page)]
    /\ UNCHANGED <<pages, tagged_items, link_fields, time>>

(***************************************************************************)
(* Idle values of the state a specification does not use.                  *)
(***************************************************************************)
IdleLink == [link_external |-> "", link_page |-> {}, link_document |-> {}]
IdleTime == [hour |-> 0, minute |-> 0]

(***************************************************************************)
(* SpecPaginate: one index page under the root with up to MaxItems         *)
(* published items, and requests for any page of it.                       *)
(***************************************************************************)
MaxItems == 21

ItemTypeOf(index_type) ==
    CASE index_type = "BlogIndexPage" -> "BlogPage"
      [] index_type = "JobIndexPage" -> "JobPage"
      [] index_type = "WorkIndexPage" -> "WorkPage"
      [] index_type = "PersonIndexPage" -> "PersonPage"

PageChars == {"-", "0", "1", "2", "4", "a"}
PageStrings ==
    {<<>>, <<"a", "b", "c">>}
        \cup {<<c>> : c \in PageChars}
        \cup {<<c, d>> : c \in PageChars, d \in PageChars}

PaginateRequests ==
    [page : {{}} \cup {{chars} : chars \in PageStrings},
     tag : {{}, {""}, {"django"}}]

UntaggedRequests == {GET \in PaginateRequests : GET.tag = {}}

InitPaginate ==
    /\ pages = <<RootPage>>
    /\ tagged_items = {}
    /\ link_fields = IdleLink
    /\ time = IdleTime
    /\ response = NoResponse

CreateIndex ==
    /\ Len(pages) = 1
    /\ \E type \in IndexTypes : CreatePage(1, type, TRUE, NoDate)

CreateItem ==
    /\ Len(pages) >= 2
    /\ Len(pages) < MaxItems + 2
    /\ CreatePage(2, ItemTypeOf(pages[2].type), TRUE, 1)

NextPaginate ==
    \/ Sent
    \/ CreateIndex
    \/ CreateItem
    \/ \E self \in PKs, GET \in PaginateRequests : BlogIndexPage_serve(self, GET)
    \/ \E self \in PKs, GET \in UntaggedRequests : JobIndexPage_serve(self, GET)
    \/ \E self \in PKs, GET \in UntaggedRequests : WorkIndexPage_serve(self, GET)
    \/ \E self \in PKs, GET \in UntaggedRequests : PersonIndexPage_serve(self, GET)

SpecPaginate == InitPaginate /\ [][NextPaginate]_vars

\* the elements of a sequence, and whether it repeats none of them
Range(seq) == {seq[i] : i \in 1..Len(seq)}
NoRepeats(seq) == Cardinality(Range(seq)) = Len(seq)

ServeOps == {"BlogIndexPage.serve", "JobIndexPage.serve",
             "WorkIndexPage.serve", "PersonIndexPage.serve"}

IsServed == response.op \in ServeOps

\* the page parameter of the served request, as Python sees it
ServedPage == GET_get(response.GET, "page")

\* C1: serve called with page=0, page=-1, a non-numeric page or no page
\* parameter returns page 1 of the results.
C1_LowOrMissingPageGivesFirst ==
    (/\ IsServed
     /\ ServedPage \in {PyNone, PyStr(<<"0">>), PyStr(<<"-", "1">>),
                        PyStr(<<"a", "b", "c">>)})
    => /\ response.exc = ""
       /\ response.number = 1

\* the number of pages of a listing of n items: 1 for the empty listing
TotalPages(n) == IF n = 0 THEN 1 ELSE (n + 9) \div 10

BeyondLastPage ==
    /\ IsServed
    /\ int(ServedPage).exc = ""
    /\ int(ServedPage).v > TotalPages(response.paginator.count)

\* C2: serve called with a numeric page greater than the number of pages
\* returns the last page (page 1 with no items for an empty listing) and does
\* not raise.
C2_BeyondLastPageGivesLast ==
    BeyondLastPage
    => /\ response.exc = ""
       /\ response.number = TotalPages(response.paginator.count)
       /\ response.paginator.count = 0 => response.object_list = <<>>
       /\ response.paginator.count > 0 =>
            /\ response.object_list # <<>>
            /\ response.object_list[Len(response.object_list)]
                = response.paginator.object_list[response.paginator.count]

C2_Witness ==
    /\ BeyondLastPage
    /\ response.paginator.count > 10
    /\ response.number = 2

C2_WitnessEmpty ==
    /\ BeyondLastPage
    /\ response.paginator.count = 0
    /\ response.number = 1

\* the request names a page k of the listing, 1 <= k <= max(1, ceil(n/10))
ValidPageServed ==
    /\ IsServed
    /\ int(ServedPage).exc = ""
    /\ int(ServedPage).v >= 1
    /\ int(ServedPage).v <= TotalPages(response.paginator.count)

\* page k of a listing, as the paginator cuts it
PageOf(listing, k) == Paginator_page(listing, 10, PyInt(k)).object_list

\* C11: serve asked for page k, 1 <= k <= max(1, ceil(n/10)), of a listing of
\* n items returns exactly the items at positions 10(k-1)+1 .. min(10k, n) of
\* the listing the request evaluated: at most 10 items, exactly 10 on every
\* page but the last, and the pages 1..last of that listing hold each of its
\* items exactly once.
C11_PageIsSliceOfListing ==
    ValidPageServed
    => LET listing == response.paginator.object_list
           n == response.paginator.count
           k == int(ServedPage).v
           last == TotalPages(n)
           upto == IF 10 * k < n THEN 10 * k ELSE n
       IN  /\ response.exc = ""
           /\ response.number = k
           /\ n = Len(listing)
           /\ NoRepeats(listing)
           /\ Len(response.object_list) = upto - 10 * (k - 1)
           /\ \A i \in 1..Len(response.object_list) :
                response.object_list[i] = listing[10 * (k - 1) + i]
           /\ Len(response.object_list) <= 10
           /\ k < last => Len(response.object_list) = 10
           /\ \A j \in 1..last :
                Len(PageOf(listing, j)) = IF j < last THEN 10 ELSE n - 10 * (last - 1)
           /\ \A i \in 1..n :
                PageOf(listing, ((i - 1) \div 10) + 1)[((i - 1) % 10) + 1] = listing[i]

\* page 2 of 3 asked for and served: a full page from the middle of 21 items
C11_Witness ==
    /\ ValidPageServed
    /\ ServedPage = PyStr(<<"2">>)
    /\ response.paginator.count = 21
    /\ response.number = 2
    /\ Len(response.object_list) = 10

\* the last page, shorter than 10: page 2 of 11 items
C11_WitnessLast ==
    /\ ValidPageServed
    /\ response.paginator.count = 11
    /\ response.number = 2
    /\ Len(response.object_list) = 1

(***************************************************************************)
(* SpecTime: the time_display filter on every time of day.                 *)
(***************************************************************************)
InitTime ==
    /\ pages = <<RootPage>>
    /\ tagged_items = {}
    /\ link_fields = IdleLink
    /\ time \in Times
    /\ response = NoResponse

NextTime ==
    \/ Sent
    \/ SetTime
    \/ TimeDisplay

SpecTime == InitTime /\ [][NextTime]_vars

\* the hour as the claim words it: 0 and 12 shown as 12, 13..23 as hour - 12
ClaimedHour(hour) ==
    IF hour = 0 \/ hour = 12 THEN "12"
    ELSE IF hour >= 13 THEN str(hour - 12)
    ELSE str(hour)

ClaimedTime(t) ==
    ClaimedHour(t.hour)
        \o (IF t.minute = 0 THEN "" ELSE "." \o str(t.minute))
        \o (IF t.hour <= 11 THEN "am" ELSE "pm")

ClaimedExamples ==
    {<<9, 0, "9am">>, <<13, 5, "1.5pm">>, <<0, 0, "12am">>,
     <<12, 0, "12pm">>, <<23, 45, "11.45pm">>}

\* C9: time_display gives the 12-hour hour without a leading zero (0 and 12
\* both as 12), then "." and the minute only when the minute is not zero,
\* then am for hours 0..11 and pm for 12..23; (9,0) is "9am", (13,5) "1.5pm",
\* (0,0) "12am", (12,0) "12pm", (23,45) "11.45pm".
C9_TimeDisplay ==
    response.op = "time_display"
    => /\ response.result = ClaimedTime(response.time)
       /\ \A e \in ClaimedExamples :
            (response.time.hour = e[1] /\ response.time.minute = e[2])
            => response.result = e[3]

C9_Witness ==
    /\ response.op = "time_display"
    /\ response.time = [hour |-> 23, minute |-> 45]
    /\ response.result = "11.45pm"

(***************************************************************************)
(* SpecLink: LinkFields.link on every combination of the three targets.    *)
(***************************************************************************)
InitLink ==
    /\ pages = <<RootPage>>
    /\ tagged_items = {}
    /\ link_fields \in LinkFieldsRows
    /\ time = IdleTime
    /\ response = NoResponse

NextLink ==
    \/ Sent
    \/ SaveLinkFields
    \/ Link

SpecLink == InitLink /\ [][NextLink]_vars

\* C5: link is the linked page's URL whenever link_page is set, otherwise
\* the linked document's URL whenever link_document is set, otherwise
\* link_external.
C5_LinkPriority ==
    response.op = "link"
    => LET self == response.self
       IN  /\ self.link_page # {}
                => \E p \in LinkPages : self.link_page = {p} /\ response.result = p.url
           /\ (self.link_page = {} /\ self.link_document # {})
                => \E d \in LinkDocuments :
                        self.link_document = {d} /\ response.result = d.url
           /\ (self.link_page = {} /\ self.link_document = {})
                => response.result = self.link_external

\* page, document and external link all set: the page's URL is returned
C5_Witness ==
    /\ response.op = "link"
    /\ response.self.link_page # {}
    /\ response.self.link_document # {}
    /\ response.self.link_external # ""
    /\ response.result = "/about/"

(***************************************************************************)
(* SpecMenu: a tree of up to MaxPages standard pages whose published and   *)
(* show-in-menus flags the editors change, and the two menu tags.          *)
(***************************************************************************)
MaxPages == 4

\* absent, or the one page given
Optional(S) == {{}} \cup {{x} : x \in S}

InitTree ==
    /\ pages = <<RootPage>>
    /\ tagged_items = {}
    /\ link_fields = IdleLink
    /\ time = IdleTime
    /\ response = NoResponse

\* the pages an editor can edit: all but the root
Editable == PKs \ {1}

NextMenu ==
    \/ Sent
    \/ /\ Len(pages) < MaxPages
       /\ \E parent \in PKs, type \in PlainTypes, live \in BOOLEAN :
            CreatePage(parent, type, live, NoDate)
    \/ \E pk \in Editable, live \in BOOLEAN : SetLive(pk, live)
    \/ \E pk \in Editable, show \in BOOLEAN : SetShowInMenus(pk, show)
    \/ \E parent \in PKs : \E calling_page \in {{}, {parent}} :
            TopMenu(parent, calling_page)
    \/ \E calling_page \in Optional(PKs) : SecondaryMenu(calling_page)

SpecMenu == InitTree /\ [][NextMenu]_vars

\* child is immediately below parent in the tree
IsParentOf(parent, child) ==
    /\ Len(pages[child].path) = Len(pages[parent].path) + 1
    /\ \A i \in 1..Len(pages[parent].path) :
            pages[child].path[i] = pages[parent].path[i]

InMenus(pk) == pages[pk].live /\ pages[pk].show_in_menus
MenuChildren(pk) == {c \in PKs : IsParentOf(pk, c) /\ InMenus(c)}
MenuSiblings(pk) ==
    {sib \in PKs :
        /\ sib # pk
        /\ InMenus(sib)
        /\ \E parent \in PKs : IsParentOf(parent, pk) /\ IsParentOf(parent, sib)}

\* C7: secondary_menu(calling_page) returns the published, nav-visible
\* children of calling_page when there is at least one; otherwise its
\* published, nav-visible siblings, never calling_page itself.
C7_SecondaryMenu ==
    (response.op = "secondary_menu" /\ response.calling_page # {})
    => LET self == CHOOSE pk \in response.calling_page : TRUE
           shown == response.context.pages
       IN  /\ NoRepeats(shown)
           /\ self \notin Range(shown)
           /\ MenuChildren(self) # {} => Range(shown) = MenuChildren(self)
           /\ MenuChildren(self) = {} => Range(shown) = MenuSiblings(self)

\* the calling page has a child, but none fit for the menu: a sibling is shown
C7_Witness ==
    /\ response.op = "secondary_menu"
    /\ response.calling_page # {}
    /\ LET self == CHOOSE pk \in response.calling_page : TRUE
       IN  /\ \E c \in PKs : IsParentOf(self, c)
           /\ MenuChildren(self) = {}
           /\ response.context.pages # <<>>

\* the calling page has a child fit for the menu, and a sibling fit for it
C7_WitnessChildren ==
    /\ response.op = "secondary_menu"
    /\ response.calling_page # {}
    /\ LET self == CHOOSE pk \in response.calling_page : TRUE
       IN  /\ MenuChildren(self) # {}
           /\ MenuSiblings(self) # {}

\* C8: top_menu(parent) returns exactly the published, nav-visible children
\* of parent, and an item's show_dropdown is true if and only if the item
\* itself has a published, nav-visible child.
C8_TopMenu ==
    response.op = "top_menu"
    => LET items == response.context.menuitems
       IN  /\ {items[i].page : i \in 1..Len(items)} = MenuChildren(response.parent)
           /\ Cardinality({items[i].page : i \in 1..Len(items)}) = Len(items)
           /\ \A i \in 1..Len(items) :
                items[i].show_dropdown <=> MenuChildren(items[i].page) # {}

\* one item with a dropdown and one without
C8_Witness ==
    /\ response.op = "top_menu"
    /\ \E i, j \in 1..Len(response.context.menuitems) :
        /\ response.context.menuitems[i].show_dropdown
        /\ ~response.context.menuitems[j].show_dropdown

\* an item without a dropdown whose unpublished child has a child fit for the menu
C8_WitnessGrandchild ==
    /\ response.op = "top_menu"
    /\ \E i \in 1..Len(response.context.menuitems) :
        /\ ~response.context.menuitems[i].show_dropdown
        /\ \E c, g \in PKs :
            /\ IsParentOf(response.context.menuitems[i].page, c)
            /\ IsParentOf(c, g)
            /\ InMenus(g)

(***************************************************************************)
(* SpecListing: a tree of up to MaxPages pages, index pages of the four    *)
(* kinds (published) and item pages of the four kinds (published or        *)
(* drafts) anywhere in it, with the four listings and blog_index.          *)
(***************************************************************************)
NextListing ==
    \/ Sent
    \/ /\ Len(pages) < MaxPages
       /\ \E parent \in PKs, type \in IndexTypes :
            CreatePage(parent, type, TRUE, NoDate)
    \/ /\ Len(pages) < MaxPages
       /\ \E parent \in PKs, type \in ItemTypes, live \in BOOLEAN :
            CreatePage(parent, type, live, 1)
    \/ \E self \in PKs : Blogs(self)
    \/ \E self \in PKs : Jobs(self)
    \/ \E self \in PKs : Work(self)
    \/ \E self \in PKs : People(self)
    \/ \E self \in PKs : BlogIndex(self)

SpecListing == InitTree /\ [][NextListing]_vars

\* below is somewhere under above in the tree
IsDescendantOf(below, above) ==
    /\ Len(pages[below].path) > Len(pages[above].path)
    /\ \A i \in 1..Len(pages[above].path) :
            pages[below].path[i] = pages[above].path[i]

ListedType(op) ==
    CASE op = "blogs" -> "BlogPage"
      [] op = "jobs" -> "JobPage"
      [] op = "work" -> "WorkPage"
      [] op = "people" -> "PersonPage"

IsListing == response.op \in {"blogs", "jobs", "work", "people"}

\* C3: the listing of an index page (blogs, jobs, work, people) contains
\* exactly the published pages of the matching type below the index page: no
\* unpublished page and no page outside its subtree.
C3_ListingIsLiveDescendants ==
    IsListing
    => /\ Range(response.result) =
            {pk \in PKs :
                /\ pages[pk].type = ListedType(response.op)
                /\ pages[pk].live
                /\ IsDescendantOf(pk, response.self)}
       /\ NoRepeats(response.result)

\* a listing that shows a page and leaves out an unpublished one below the
\* index and a published one outside it
C3_Witness ==
    /\ IsListing
    /\ response.result # <<>>
    /\ \E pk \in PKs :
        /\ pages[pk].type = ListedType(response.op)
        /\ ~pages[pk].live
        /\ IsDescendantOf(pk, response.self)

C3_WitnessOutside ==
    /\ IsListing
    /\ response.result # <<>>
    /\ \E pk \in PKs :
        /\ pages[pk].type = ListedType(response.op)
        /\ pages[pk].live
        /\ ~IsDescendantOf(pk, response.self)

BlogIndexAncestors(pk) ==
    {a \in PKs : pages[a].type = "BlogIndexPage" /\ IsDescendantOf(pk, a)}

C6_WitnessFallback ==
    /\ response.op = "blog_index"
    /\ BlogIndexAncestors(response.self) = {}
    /\ Cardinality({pk \in PKs : pages[pk].type = "BlogIndexPage"}) = 2
    /\ response.result # {}

(***************************************************************************)
(* SpecBlog: one blog index under the root and up to MaxPosts blog posts,  *)
(* below it, with dates, tags and publication, listed and served with or   *)
(* without a tag.                                                          *)
(***************************************************************************)
MaxPosts == 2

BlogRequests ==
    [page : {{}, {<<"1">>}},
     tag : {{}, {""}} \cup {{name} : name \in TagNames}]

CreateBlogIndex ==
    /\ Len(pages) = 1
    /\ CreatePage(1, "BlogIndexPage", TRUE, NoDate)

CreatePost ==
    /\ Len(pages) >= 2
    /\ Len(pages) < MaxPosts + 2
    /\ \E live \in BOOLEAN, date \in Dates :
            CreatePage(2, "BlogPage", live, date)

NextBlog ==
    \/ Sent
    \/ CreateBlogIndex
    \/ CreatePost
    \/ \E pk \in Editable, live \in BOOLEAN : SetLive(pk, live)
    \/ \E pk \in Editable, name \in TagNames : AddTag(pk, name)
    \/ \E self \in PKs : Blogs(self)
    \/ \E self \in PKs, GET \in BlogRequests : BlogIndexPage_serve(self, GET)

SpecBlog == InitTree /\ [][NextBlog]_vars

IsBlogServed == response.op = "BlogIndexPage.serve"

LivePosts(index) ==
    {pk \in PKs :
        /\ pages[pk].type = "BlogPage"
        /\ pages[pk].live
        /\ IsDescendantOf(pk, index)}

HasTag(pk, name) ==
    \E ti \in tagged_items : ti.content_object = pk /\ ti.tag = name

\* C4: BlogIndexPage.serve with a non-empty tag paginates exactly the
\* published descendant posts whose tags contain it, each once; with the tag
\* absent or empty it paginates all the published descendant posts.
C4_TagFilter ==
    IsBlogServed
    => LET listing == response.paginator.object_list
           tag == response.GET.tag
       IN  /\ response.exc = ""
           /\ NoRepeats(listing)
           /\ Len(listing) <= 10 => response.object_list = listing
           /\ (tag = {} \/ tag = {""}) => Range(listing) = LivePosts(response.self)
           /\ \A name \in TagNames :
                tag = {name} =>
                    Range(listing) =
                        {pk \in LivePosts(response.self) : HasTag(pk, name)}

\* served by tag: a post with the tag is listed, a published post below the
\* index that carries only the other tag is not
C4_Witness ==
    /\ IsBlogServed
    /\ response.GET.tag = {"django"}
    /\ response.object_list # <<>>
    /\ \E pk \in LivePosts(response.self) :
        HasTag(pk, "wagtail") /\ ~HasTag(pk, "django")

DistinctDates(rows) ==
    \A i, j \in 1..Len(rows) : i # j => pages[rows[i]].date # pages[rows[j]].date

NewestFirst(rows) ==
    \A i, j \in 1..Len(rows) : i < j => pages[rows[i]].date > pages[rows[j]].date

\* C10: when the published descendant posts have pairwise distinct dates,
\* the blog listing, and what serve paginates with or without a tag, is in
\* strictly descending order of post date.
C10_NewestFirst ==
    /\ (response.op = "blogs"
            /\ DistinctDates(Ascending(LivePosts(response.self))))
        => NewestFirst(response.result)
    /\ (IsBlogServed /\ DistinctDates(Ascending(LivePosts(response.self))))
        => /\ NewestFirst(response.paginator.object_list)
           /\ NewestFirst(response.object_list)

\* two posts listed, the older one created last
C10_Witness ==
    /\ response.op = "blogs"
    /\ Len(response.result) = 2
    /\ response.result[1] < response.result[2]
    /\ pages[response.result[1]].date > pages[response.result[2]].date

\* two posts served under a tag, the newer one created last
C10_WitnessServed ==
    /\ IsBlogServed
    /\ response.GET.tag = {"django"}
    /\ Len(response.object_list) = 2
    /\ response.object_list[1] > response.object_list[2]
    /\ pages[response.object_list[1]].date > pages[response.object_list[2]].date

====
